---------------------------- MODULE Spec2Model ----------------------------
(***************************************************************************)
(* Model of the Sand falling-tile game (src/logic.js).                     *)
(*                                                                         *)
(* The program is a single JavaScript object, Sand, driven by the browser  *)
(* event loop: the constructor builds a random grid and draws it, render() *)
(* runs once per animation frame (applyPhysics, then drawScreen on the     *)
(* list applyPhysics returned), and five DOM event handlers paint tiles,   *)
(* select the tile type and clear the grid.  JavaScript callbacks run to   *)
(* completion, so a handler never runs inside a render step; the variable  *)
(* pc records where the single thread of control is.                       *)
(*                                                                         *)
(* Representation: tile values are the one-character strings of the        *)
(* source.  The number -1 the source writes into the grid to mark a moved  *)
(* tile is written "-1" here, and the value undefined that an              *)
(* out-of-range array read yields is written "undefined"; both differ      *)
(* from every key of TILE_COLORS, as in the source.                        *)
(***************************************************************************)
EXTENDS Integers, Sequences, FiniteSets, TLC

(***************************************************************************)
(* Bounds of the model.                                                    *)
(***************************************************************************)
\* Largest number of cells (columns * rows) of a grid on which ticks alone
\* are explored (SpecPhysics).
MaxCells == 6

\* Largest number of cells of a grid on which the whole program, event
\* handlers included, is explored (Spec).
MaxCanvasCells == 4

\* Largest number of cells of a grid on which ticks are explored from the
\* grids that hold water between two air cells (SpecFlow).
MaxFlowCells == 9

(***************************************************************************)
(* Tile types and colours (logic.js lines 1-26).                           *)
(***************************************************************************)
TILE_AIR == "a"
TILE_LAND == "l"
TILE_WATER == "w"
TILE_STATIC == "s"
TILE_TYPES == <<TILE_AIR, TILE_LAND, TILE_WATER, TILE_STATIC>>

\* The keys of the TILE_COLORS object.
TILE_COLORS ==
    {"a", "l", "w", "s", "0", "1", "2", "3", "4", "5", "6", "7", "8", "9", "-", "="}

\* The number -1 that applyPhysics stores in a cell it has moved.
SENTINEL == "-1"

\* What reading an array element past the end yields.
UNDEFINED == "undefined"

\* The static variants: every tile value that no physics rule names.
StaticTiles == TILE_COLORS \ {TILE_AIR, TILE_LAND, TILE_WATER}

VARIABLES
    horizontalTileCount,  \* this.horizontalTileCount (columns, W)
    verticalTileCount,    \* this.verticalTileCount (rows, H)
    tiles,                \* this.tiles: tiles[x][y], column-major
    isDrawing,            \* this.isDrawing
    currentTileType,      \* this.currentTileType
    pc,                   \* position of the thread of control
    tilesToRedraw,        \* the changed-cell list of the operation in progress
    tilesBefore,          \* the grid when the operation in progress started
    event,                \* the DOM event of the handler in progress
    scanLog,              \* the cell visits of the applyPhysics pass in progress
    screenCanvas          \* the canvas: per cell, the tile value last filled in

vars == <<horizontalTileCount, verticalTileCount, tiles, isDrawing,
          currentTileType, pc, tilesToRedraw, tilesBefore, event, scanLog,
          screenCanvas>>

Columns == 0 .. (horizontalTileCount - 1)
Rows == 0 .. (verticalTileCount - 1)

\* All grids of L columns and M rows over the value set V.
Grids(L, M, V) == [0 .. (L - 1) -> [0 .. (M - 1) -> V]]

\* The grid dimensions <<columns, rows>> of at most n cells.
Dimensions(n) == {d \in (1 .. n) \X (1 .. n) : d[1] * d[2] <= n}

\* One changed-cell record {x, y, value}.
Record(x, y, value) == [x |-> x, y |-> y, value |-> value]

\* tiles[x][y] = value
SetTile(t, x, y, value) == [t EXCEPT ![x][y] = value]

(***************************************************************************)
(* drawScreen (lines 227-240): every record is written into the grid, in   *)
(* list order.                                                             *)
(***************************************************************************)
\* A drawScreen that paints the canvas and leaves out the store of line 234.
drawScreenNoStore(t, list) == t

RECURSIVE drawScreen(_, _)
drawScreen(t, list) ==
    IF list = <<>> THEN t
    ELSE drawScreen(SetTile(t, Head(list).x, Head(list).y, Head(list).value),
                    Tail(list))

\* Lines 236-238: every record's square of the canvas is filled with the
\* colour of the record's value, in list order.  The canvas is kept as the
\* tile value whose colour each square was last filled with.
RECURSIVE fillRect(_, _)
fillRect(c, list) ==
    IF list = <<>> THEN c
    ELSE fillRect(SetTile(c, Head(list).x, Head(list).y, Head(list).value),
                  Tail(list))

\* The canvas element before anything is drawn on it.
BLANK == "blank"

(***************************************************************************)
(* applyPhysics (lines 250-314).                                           *)
(***************************************************************************)
\* A vertical rule in which Water, like Land, sinks through Water.
VerticalRuleThroughWater(tile, tileBelow) ==
    /\ tile \in {TILE_LAND, TILE_WATER}
    /\ tileBelow \in {TILE_AIR, TILE_WATER}

\* A vertical rule in which Land sinks through Water but rests on Air.
VerticalRuleLandFloats(tile, tileBelow) ==
    \/ tile = TILE_LAND /\ tileBelow = TILE_WATER
    \/ tile = TILE_WATER /\ tileBelow = TILE_AIR

\* A vertical rule in which Land falls through whatever is not Land.
VerticalRuleUnlessLand(tile, tileBelow) ==
    \/ tile = TILE_LAND /\ tileBelow # TILE_LAND
    \/ tile = TILE_WATER /\ tileBelow = TILE_AIR

\* A vertical rule in which Land falls through Air only.
VerticalRuleLandAirOnly(tile, tileBelow) ==
    \/ tile = TILE_LAND /\ tileBelow = TILE_AIR
    \/ tile = TILE_WATER /\ tileBelow = TILE_AIR

\* A vertical rule without the Water branch of line 268.
VerticalRuleLandOnly(tile, tileBelow) ==
    tile = TILE_LAND /\ (tileBelow = TILE_AIR \/ tileBelow = TILE_WATER)

\* Lines 266-270: does the vertical rule fire for this cell?
VerticalRule(tile, tileBelow) ==
    IF tile = TILE_LAND /\ (tileBelow = TILE_AIR \/ tileBelow = TILE_WATER)
    THEN TRUE
    ELSE IF tile = TILE_WATER /\ tileBelow = TILE_AIR
    THEN TRUE
    ELSE FALSE

\* A horizontal rule whose mirror branch forgets to test that the neighbour
\* on the left holds water.
HorizontalRuleAnyNeighbour(cointFlip, tile, tileBefore, tileBelow, tileBelowBefore) ==
    IF cointFlip = 1 /\ tile = TILE_WATER /\ tileBefore = TILE_AIR
       /\ tileBelow # TILE_AIR
    THEN TRUE
    ELSE IF cointFlip = 0 /\ tile = TILE_AIR /\ tileBelowBefore # TILE_AIR
    THEN TRUE
    ELSE FALSE

\* A horizontal rule that does not look at what lies below the water.
HorizontalRuleUnsupported(cointFlip, tile, tileBefore, tileBelow, tileBelowBefore) ==
    IF cointFlip = 1 /\ tile = TILE_WATER /\ tileBefore = TILE_AIR
    THEN TRUE
    ELSE IF cointFlip = 0 /\ tile = TILE_AIR /\ tileBefore = TILE_WATER
    THEN TRUE
    ELSE FALSE

\* A horizontal rule without its mirror branch: water moves left only.
HorizontalRuleLeftOnly(cointFlip, tile, tileBefore, tileBelow, tileBelowBefore) ==
    /\ cointFlip = 1 /\ tile = TILE_WATER /\ tileBefore = TILE_AIR
    /\ tileBelow # TILE_AIR

\* A horizontal rule that lets Land flow to the left as Water does.
HorizontalRuleLandFlows(cointFlip, tile, tileBefore, tileBelow, tileBelowBefore) ==
    IF cointFlip = 1 /\ tile \in {TILE_WATER, TILE_LAND} /\ tileBefore = TILE_AIR
       /\ tileBelow # TILE_AIR
    THEN TRUE
    ELSE IF cointFlip = 0 /\ tile = TILE_AIR /\ tileBefore = TILE_WATER
            /\ tileBelowBefore # TILE_AIR
    THEN TRUE
    ELSE FALSE

\* Lines 292-296: does the horizontal rule fire for this cell?
HorizontalRule(cointFlip, tile, tileBefore, tileBelow, tileBelowBefore) ==
    IF cointFlip = 1 /\ tile = TILE_WATER /\ tileBefore = TILE_AIR
       /\ tileBelow # TILE_AIR
    THEN TRUE
    ELSE IF cointFlip = 0 /\ tile = TILE_AIR /\ tileBefore = TILE_WATER
            /\ tileBelowBefore # TILE_AIR
    THEN TRUE
    ELSE FALSE

\* A vertical swap that marks the two cells before it builds the records,
\* so that the records carry what the cells hold after the marking.
VerticalSwapStale(st, x, y, tile, tileBelow) ==
    LET marked == SetTile(SetTile(st.tiles, x, y, SENTINEL), x, y + 1, SENTINEL)
    IN [st EXCEPT
          !.tiles = marked,
          !.tilesToRedraw = @ \o <<Record(x, y, marked[x][y + 1]),
                                   Record(x, y + 1, marked[x][y])>>]

\* A vertical swap that leaves out the marking of lines 279-280.
VerticalSwapUnmarked(st, x, y, tile, tileBelow) ==
    [st EXCEPT
       !.tilesToRedraw = @ \o <<Record(x, y, tileBelow), Record(x, y + 1, tile)>>]

\* A vertical swap whose records give each cell its own value back.
VerticalSwapNoExchange(st, x, y, tile, tileBelow) ==
    [st EXCEPT
       !.tiles = SetTile(SetTile(@, x, y, SENTINEL), x, y + 1, SENTINEL),
       !.tilesToRedraw = @ \o <<Record(x, y, tile), Record(x, y + 1, tileBelow)>>]

\* Lines 273-283: the vertical swap of (x, y) and (x, y + 1).
VerticalSwap(st, x, y, tile, tileBelow) ==
    [st EXCEPT
       !.tiles = SetTile(SetTile(@, x, y, SENTINEL), x, y + 1, SENTINEL),
       !.tilesToRedraw = @ \o <<Record(x, y, tileBelow), Record(x, y + 1, tile)>>]

\* A horizontal swap whose second record carries tileBefore instead of tile.
HorizontalSwapCopy(st, x, y, tile, tileBefore) ==
    [st EXCEPT
       !.tiles = SetTile(SetTile(@, x, y, SENTINEL), x - 1, y, SENTINEL),
       !.tilesToRedraw = @ \o <<Record(x, y, tileBefore), Record(x - 1, y, tileBefore)>>]

\* A horizontal swap whose second record names the cell to the right.
HorizontalSwapRight(st, x, y, tile, tileBefore) ==
    [st EXCEPT
       !.tiles = SetTile(SetTile(@, x, y, SENTINEL), x - 1, y, SENTINEL),
       !.tilesToRedraw = @ \o <<Record(x, y, tileBefore), Record(x + 1, y, tile)>>]

\* A horizontal swap that reports the current cell twice.
HorizontalSwapRepeated(st, x, y, tile, tileBefore) ==
    [st EXCEPT
       !.tiles = SetTile(SetTile(@, x, y, SENTINEL), x - 1, y, SENTINEL),
       !.tilesToRedraw = @ \o <<Record(x, y, tileBefore), Record(x - 1, y, tile),
                                Record(x, y, tileBefore)>>]

\* Lines 299-307: the horizontal swap of (x, y) and (x - 1, y).
HorizontalSwap(st, x, y, tile, tileBefore) ==
    [st EXCEPT
       !.tiles = SetTile(SetTile(@, x, y, SENTINEL), x - 1, y, SENTINEL),
       !.tilesToRedraw = @ \o <<Record(x, y, tileBefore), Record(x - 1, y, tile)>>]

\* changeOccurred without the reset of line 282.
ChangeOccurredNotReset(fell) == fell

\* Line 282 resets changeOccurred after the vertical swap, so the horizontal
\* block starts from changeOccurred = false whether or not the tile fell.
ChangeOccurredAfterVertical(fell) == FALSE

\* A visit whose horizontal block is guarded by x > 0 alone, outside the
\* guard of line 264.
VisitCellUnguardedFlow(st, x, y, M, flip) ==
    LET tile == st.tiles[x][y]
        tileBelow == IF y + 1 < M THEN st.tiles[x][y + 1] ELSE UNDEFINED
        fell == y < M - 1 /\ VerticalRule(tile, tileBelow)
        afterVertical == IF fell THEN VerticalSwap(st, x, y, tile, tileBelow)
                         ELSE st
        flipped == x > 0
        tileBefore == IF flipped THEN afterVertical.tiles[x - 1][y] ELSE "unread"
        tileBelowBefore ==
            IF ~flipped THEN "unread"
            ELSE IF y + 1 < M THEN afterVertical.tiles[x - 1][y + 1]
            ELSE UNDEFINED
        cointFlip == IF flipped THEN flip ELSE 0
        flowed == /\ flipped
                  /\ \/ ChangeOccurredAfterVertical(fell)
                     \/ HorizontalRule(cointFlip, tile, tileBefore, tileBelow,
                                       tileBelowBefore)
        afterHorizontal ==
            IF flowed THEN HorizontalSwap(afterVertical, x, y, tile, tileBefore)
            ELSE afterVertical
    IN [afterHorizontal EXCEPT !.log = Append(@,
           [x |-> x, y |-> y, tile |-> tile, tileBelow |-> tileBelow,
            tileBefore |-> tileBefore, tileBelowBefore |-> tileBelowBefore,
            flipped |-> flipped, cointFlip |-> cointFlip,
            fell |-> fell, flowed |-> flowed])]

\* Lines 260-309: the body of the inner loop for cell (x, y).  Line 261 reads
\* tiles[x][y + 1] before the guard of line 264; in the bottom row that read
\* is past the end of the column and yields undefined.  The visit is added
\* to the scan log with the locals it leaves: tileBefore and tileBelowBefore
\* are "unread" and cointFlip is 0 when the horizontal block (lines 286-308)
\* was not entered.
VisitCell(st, x, y, M, flip) ==
    LET tile == st.tiles[x][y]
        tileBelow == IF y + 1 < M THEN st.tiles[x][y + 1] ELSE UNDEFINED
        \* lines 264-283
        fell == y < M - 1 /\ VerticalRule(tile, tileBelow)
        afterVertical == IF fell THEN VerticalSwap(st, x, y, tile, tileBelow)
                         ELSE st
        \* lines 286-308
        flipped == y < M - 1 /\ x > 0
        tileBefore == IF flipped THEN afterVertical.tiles[x - 1][y] ELSE "unread"
        tileBelowBefore ==
            IF flipped THEN afterVertical.tiles[x - 1][y + 1] ELSE "unread"
        cointFlip == IF flipped THEN flip ELSE 0
        flowed == /\ flipped
                  /\ \/ ChangeOccurredAfterVertical(fell)
                     \/ HorizontalRule(cointFlip, tile, tileBefore, tileBelow,
                                       tileBelowBefore)
        afterHorizontal ==
            IF flowed THEN HorizontalSwap(afterVertical, x, y, tile, tileBefore)
            ELSE afterVertical
    IN [afterHorizontal EXCEPT !.log = Append(@,
           [x |-> x, y |-> y, tile |-> tile, tileBelow |-> tileBelow,
            tileBefore |-> tileBefore, tileBelowBefore |-> tileBelowBefore,
            flipped |-> flipped, cointFlip |-> cointFlip,
            fell |-> fell, flowed |-> flowed])]

\* The cells for which line 290 draws a coin flip, as scan indices x * M + y.
FlipCells(L, M) == {k \in 0 .. (L * M - 1) : (k \div M) > 0 /\ (k % M) < M - 1}

\* Lines 258-311: the scan, columns left to right and rows top to bottom
\* within a column; k is the scan index x * M + y.
RECURSIVE Scan(_, _, _, _, _)
Scan(st, k, L, M, flips) ==
    IF k >= L * M THEN st
    ELSE Scan(VisitCell(st, k \div M, k % M, M,
                        IF k \in DOMAIN flips THEN flips[k] ELSE 0),
              k + 1, L, M, flips)

\* applyPhysics on grid t with the coin flips `flips': the grid it leaves,
\* the list it returns and the log of its scan.
applyPhysics(t, L, M, flips) ==
    Scan([tiles |-> t, tilesToRedraw |-> <<>>, log |-> <<>>], 0, L, M, flips)

(***************************************************************************)
(* The constructor (lines 34-67) and initialize (lines 76-89).             *)
(***************************************************************************)
\* An enumeration that stops one cell short of the end of the grid.
FullEnumerationShort(t, L, M) ==
    [k \in 1 .. (L * M - 1) |->
        Record((k - 1) \div M, (k - 1) % M, t[(k - 1) \div M][(k - 1) % M])]

\* Lines 53-64 and 199-212: one record per cell, columns then rows.
FullEnumeration(t, L, M) ==
    [k \in 1 .. (L * M) |->
        Record((k - 1) \div M, (k - 1) % M, t[(k - 1) \div M][(k - 1) % M])]

TileTypeSet == {TILE_TYPES[i] : i \in DOMAIN TILE_TYPES}

\* No handler is running.
NoEvent == [type |-> "none"]

Init ==
    /\ \E d \in Dimensions(MaxCanvasCells) :
          /\ horizontalTileCount = d[1]
          /\ verticalTileCount = d[2]
          /\ tiles \in Grids(d[1], d[2], TileTypeSet)
    /\ isDrawing = FALSE
    /\ currentTileType = "s"
    /\ pc = "constructed"
    /\ tilesToRedraw = FullEnumeration(tiles, horizontalTileCount, verticalTileCount)
    /\ tilesBefore = tiles
    /\ event = NoEvent
    /\ scanLog = <<>>
    /\ screenCanvas = fillRect([x \in Columns |-> [y \in Rows |-> BLANK]], tilesToRedraw)

(***************************************************************************)
(* render (lines 324-332), in three steps: applyPhysics returns, drawScreen *)
(* returns, render returns to the event loop.  The constructor is followed *)
(* at once by the first render (lines 335-336).                            *)
(***************************************************************************)
RenderApplyPhysics ==
    /\ pc \in {"constructed", "idle"}
    /\ \E flips \in [FlipCells(horizontalTileCount, verticalTileCount) -> {0, 1}] :
          LET r == applyPhysics(tiles, horizontalTileCount, verticalTileCount, flips)
          IN /\ tiles' = r.tiles
             /\ tilesToRedraw' = r.tilesToRedraw
             /\ scanLog' = r.log
    /\ tilesBefore' = tiles
    /\ pc' = "physics"
    /\ UNCHANGED <<horizontalTileCount, verticalTileCount, isDrawing,
                   currentTileType, event, screenCanvas>>

RenderDrawScreen ==
    /\ pc = "physics"
    /\ tiles' = drawScreen(tiles, tilesToRedraw)
    /\ screenCanvas' = fillRect(screenCanvas, tilesToRedraw)
    /\ pc' = "rendered"
    /\ UNCHANGED <<horizontalTileCount, verticalTileCount, isDrawing,
                   currentTileType, tilesToRedraw, tilesBefore, event, scanLog>>

(***************************************************************************)
(* The event handlers (lines 100-215).  A handler runs from the idle event *)
(* loop, whole, and leaves pc = "handled".                                 *)
(***************************************************************************)
\* this.tileSize (line 38).
tileSize == 10

\* Pointer positions, as <<pageX - offsetLeft, pageY - offsetTop>>: one inside
\* every cell, and one just outside each edge of the canvas.
CanvasPositions ==
    {<<tileSize * x + 9, tileSize * y + 9>> : x \in Columns, y \in Rows}
PointerPositions ==
    CanvasPositions
    \cup {<<-1, 0>>, <<0, -1>>,
          <<tileSize * horizontalTileCount, 0>>,
          <<0, tileSize * verticalTileCount>>}

\* The key values delivered: three keys of TILE_COLORS and three that are
\* not, one of which names a property inherited by every object.
KeyInputs == {"w", "l", "1", "x", "Escape", "constructor"}

\* The key codes released: Escape and another key.
KeyCodeInputs == {27, 65}

\* A target tile rounded to the nearest tile rather than down.
TargetTileRound(e) ==
    [x |-> (2 * e.offsetX + tileSize) \div (2 * tileSize),
     y |-> (2 * e.offsetY + tileSize) \div (2 * tileSize)]

\* A target tile truncated toward zero rather than rounded down.
TargetTileTruncate(e) ==
    [x |-> IF e.offsetX < 0 THEN 0 - ((0 - e.offsetX) \div tileSize)
                            ELSE e.offsetX \div tileSize,
     y |-> IF e.offsetY < 0 THEN 0 - ((0 - e.offsetY) \div tileSize)
                            ELSE e.offsetY \div tileSize]

\* Lines 168-171: the tile under the pointer.
TargetTile(e) ==
    [x |-> e.offsetX \div tileSize, y |-> e.offsetY \div tileSize]

\* Line 177: is the target tile inside the screen boundaries?
InsideScreen(targetTile, L, M) ==
    /\ targetTile.x >= 0 /\ targetTile.x < L
    /\ targetTile.y >= 0 /\ targetTile.y < M

\* A processDrawing without the test of the drawing flag (line 165).
processDrawingUngated(e, drawing, type, L, M) ==
    IF InsideScreen(TargetTile(e), L, M)
    THEN <<Record(TargetTile(e).x, TargetTile(e).y, type)>>
    ELSE <<>>

\* processDrawing (lines 164-184): the list handed to drawScreen, empty when
\* drawScreen is not called.
processDrawing(e, drawing, type, L, M) ==
    IF ~drawing THEN <<>>
    ELSE IF InsideScreen(TargetTile(e), L, M)
         THEN <<Record(TargetTile(e).x, TargetTile(e).y, type)>>
         ELSE <<>>

\* startDrawing (lines 120-124), bound to mousedown on the canvas.
MouseDown ==
    /\ pc = "idle"
    /\ \E p \in CanvasPositions :
          /\ event' = [type |-> "mousedown", offsetX |-> p[1], offsetY |-> p[2]]
          /\ isDrawing' = TRUE
          /\ tilesToRedraw' = processDrawing(event', TRUE, currentTileType,
                                             horizontalTileCount, verticalTileCount)
    /\ tiles' = drawScreen(tiles, tilesToRedraw')
    /\ screenCanvas' = fillRect(screenCanvas, tilesToRedraw')
    /\ tilesBefore' = tiles
    /\ pc' = "handled"
    /\ UNCHANGED <<scanLog, horizontalTileCount, verticalTileCount, currentTileType>>

\* processDrawing, bound to mousemove on the document.
MouseMove ==
    /\ pc = "idle"
    /\ \E p \in PointerPositions :
          /\ event' = [type |-> "mousemove", offsetX |-> p[1], offsetY |-> p[2]]
          /\ tilesToRedraw' = processDrawing(event', isDrawing, currentTileType,
                                             horizontalTileCount, verticalTileCount)
    /\ tiles' = drawScreen(tiles, tilesToRedraw')
    /\ screenCanvas' = fillRect(screenCanvas, tilesToRedraw')
    /\ tilesBefore' = tiles
    /\ pc' = "handled"
    /\ UNCHANGED <<scanLog, horizontalTileCount, verticalTileCount, isDrawing, currentTileType>>

\* stopDrawing (lines 135-137), bound to mouseup on the document.
MouseUp ==
    /\ pc = "idle"
    /\ event' = [type |-> "mouseup"]
    /\ isDrawing' = FALSE
    /\ tilesToRedraw' = <<>>
    /\ tilesBefore' = tiles
    /\ pc' = "handled"
    /\ UNCHANGED <<scanLog, horizontalTileCount, verticalTileCount, tiles,
                   currentTileType, screenCanvas>>

\* TILE_COLORS is an object literal (line 9): besides its own keys, a lookup
\* finds the properties every object inherits from Object.prototype.
ObjectPrototypeKeys ==
    {"constructor", "hasOwnProperty", "isPrototypeOf", "propertyIsEnumerable",
     "toLocaleString", "toString", "valueOf", "__proto__",
     "__defineGetter__", "__defineSetter__", "__lookupGetter__",
     "__lookupSetter__"}

\* Is TILE_COLORS[ key ] truthy (line 149)?  Every own key maps to a
\* non-empty string, every inherited one to a function or an object.
TileColorsLookup(key) == key \in TILE_COLORS \/ key \in ObjectPrototypeKeys

\* updateCurrentTileType (lines 148-153), bound to keypress.
updateCurrentTileType(e, type) ==
    IF ~TileColorsLookup(e.key) THEN type ELSE e.key

KeyPress ==
    /\ pc = "idle"
    /\ \E key \in KeyInputs : event' = [type |-> "keypress", key |-> key]
    /\ currentTileType' = updateCurrentTileType(event', currentTileType)
    /\ tilesToRedraw' = <<>>
    /\ tilesBefore' = tiles
    /\ pc' = "handled"
    /\ UNCHANGED <<scanLog, horizontalTileCount, verticalTileCount, tiles,
                   isDrawing, screenCanvas>>

\* A clear that hands drawScreen only the cells that did not hold air.
clearScreenSkipUnchanged(e, t, L, M) ==
    IF e.keyCode # 27
    THEN [tiles |-> t, tilesToRedraw |-> <<>>]
    ELSE LET cleared == [x \in 0 .. (L - 1) |-> [y \in 0 .. (M - 1) |-> TILE_AIR]]
             list == SelectSeq(FullEnumeration(cleared, L, M),
                               LAMBDA r : t[r.x][r.y] # TILE_AIR)
         IN [tiles |-> drawScreen(cleared, list), tilesToRedraw |-> list]

\* A clear that resets the grid and hands drawScreen nothing.
clearScreenNoRedraw(e, t, L, M) ==
    IF e.keyCode # 27
    THEN [tiles |-> t, tilesToRedraw |-> <<>>]
    ELSE [tiles |-> [x \in 0 .. (L - 1) |-> [y \in 0 .. (M - 1) |-> TILE_AIR]],
          tilesToRedraw |-> <<>>]

\* clearScreen (lines 195-215), bound to keyup: the grid it leaves and the
\* list it hands to drawScreen.
clearScreen(e, t, L, M) ==
    IF e.keyCode # 27
    THEN [tiles |-> t, tilesToRedraw |-> <<>>]
    ELSE LET cleared == [x \in 0 .. (L - 1) |-> [y \in 0 .. (M - 1) |-> TILE_AIR]]
             list == FullEnumeration(cleared, L, M)
         IN [tiles |-> drawScreen(cleared, list), tilesToRedraw |-> list]

\* A keyup handler that also ends the drag in progress.
KeyUpStopsDrawing ==
    /\ pc = "idle"
    /\ \E keyCode \in KeyCodeInputs : event' = [type |-> "keyup", keyCode |-> keyCode]
    /\ LET r == clearScreen(event', tiles, horizontalTileCount, verticalTileCount)
       IN /\ tiles' = r.tiles
          /\ tilesToRedraw' = r.tilesToRedraw
          /\ screenCanvas' = fillRect(screenCanvas, r.tilesToRedraw)
    /\ tilesBefore' = tiles
    /\ pc' = "handled"
    /\ isDrawing' = FALSE
    /\ UNCHANGED <<scanLog, horizontalTileCount, verticalTileCount, currentTileType>>

KeyUp ==
    /\ pc = "idle"
    /\ \E keyCode \in KeyCodeInputs : event' = [type |-> "keyup", keyCode |-> keyCode]
    /\ LET r == clearScreen(event', tiles, horizontalTileCount, verticalTileCount)
       IN /\ tiles' = r.tiles
          /\ tilesToRedraw' = r.tilesToRedraw
          /\ screenCanvas' = fillRect(screenCanvas, r.tilesToRedraw)
    /\ tilesBefore' = tiles
    /\ pc' = "handled"
    /\ UNCHANGED <<scanLog, horizontalTileCount, verticalTileCount, isDrawing, currentTileType>>

\* The callback (render or a handler) returns; its locals are gone.
Return ==
    /\ pc \in {"rendered", "handled"}
    /\ pc' = "idle"
    /\ tilesToRedraw' = <<>>
    /\ tilesBefore' = tiles
    /\ event' = NoEvent
    /\ scanLog' = <<>>
    /\ UNCHANGED <<horizontalTileCount, verticalTileCount, tiles, isDrawing,
                   currentTileType, screenCanvas>>

Next ==
    \/ RenderApplyPhysics
    \/ RenderDrawScreen
    \/ MouseDown
    \/ MouseMove
    \/ MouseUp
    \/ KeyPress
    \/ KeyUp
    \/ Return

Spec == Init /\ [][Next]_vars

(***************************************************************************)
(* Ticks alone, from every grid: the idle program holding any grid of at   *)
(* most MaxCells cells over the four tile natures and one coloured static  *)
(* variant (painting reaches every such grid), followed by render steps.   *)
(***************************************************************************)
PhysicsValues == TileTypeSet \cup {"="}

InitPhysics ==
    /\ \E d \in Dimensions(MaxCells) :
          /\ horizontalTileCount = d[1]
          /\ verticalTileCount = d[2]
          /\ tiles \in Grids(d[1], d[2], PhysicsValues)
    /\ isDrawing = FALSE
    /\ currentTileType = "s"
    /\ pc = "idle"
    /\ tilesToRedraw = <<>>
    /\ tilesBefore = tiles
    /\ event = NoEvent
    /\ scanLog = <<>>
    /\ screenCanvas = tiles

NextPhysics ==
    \/ RenderApplyPhysics
    \/ RenderDrawScreen
    \/ Return

SpecPhysics == InitPhysics /\ [][NextPhysics]_vars

(***************************************************************************)
(* Ticks alone, from the larger grids in which the horizontal rule has a   *)
(* choice: the idle program holding any grid of at most MaxFlowCells cells *)
(* over the four tile natures in which some cell (x, y), with a column on  *)
(* each side and a row below, holds Water on a cell that is not Air,       *)
(* between two Air cells of which the right one is on a cell that is not   *)
(* Air either.                                                             *)
(***************************************************************************)
WaterBetweenAir(t, L, M, x, y) ==
    /\ 0 < x /\ x < L - 1 /\ y < M - 1
    /\ t[x][y] = TILE_WATER
    /\ t[x][y + 1] # TILE_AIR
    /\ t[x - 1][y] = TILE_AIR
    /\ t[x + 1][y] = TILE_AIR
    /\ t[x + 1][y + 1] # TILE_AIR

InitFlow ==
    /\ \E d \in Dimensions(MaxFlowCells) :
          /\ d[1] >= 3 /\ d[2] >= 2
          /\ horizontalTileCount = d[1]
          /\ verticalTileCount = d[2]
          /\ tiles \in Grids(d[1], d[2], TileTypeSet)
          /\ \E x \in 0 .. (d[1] - 1) : \E y \in 0 .. (d[2] - 1) :
                WaterBetweenAir(tiles, d[1], d[2], x, y)
    /\ isDrawing = FALSE
    /\ currentTileType = "s"
    /\ pc = "idle"
    /\ tilesToRedraw = <<>>
    /\ tilesBefore = tiles
    /\ event = NoEvent
    /\ scanLog = <<>>
    /\ screenCanvas = tiles

SpecFlow == InitFlow /\ [][NextPhysics]_vars

(***************************************************************************)
(* Ticks alone, for ever, from every grid without Water: the idle program  *)
(* holding any grid of at most MaxCells cells over Air, Land and two       *)
(* static variants.  render asks for the next animation frame each time it *)
(* runs (line 331), so the steps of the tick keep being taken: each of     *)
(* them moves pc, one of them is possible in every state, and control      *)
(* keeps advancing.                                                        *)
(***************************************************************************)
DryValues == PhysicsValues \ {TILE_WATER}

InitDry ==
    /\ \E d \in Dimensions(MaxCells) :
          /\ horizontalTileCount = d[1]
          /\ verticalTileCount = d[2]
          /\ tiles \in Grids(d[1], d[2], DryValues)
    /\ isDrawing = FALSE
    /\ currentTileType = "s"
    /\ pc = "idle"
    /\ tilesToRedraw = <<>>
    /\ tilesBefore = tiles
    /\ event = NoEvent
    /\ scanLog = <<>>
    /\ screenCanvas = tiles

Advance == pc' \in {"idle", "physics", "rendered"} /\ pc' # pc

SpecDry == InitDry /\ [][NextPhysics]_vars /\ WF_pc(Advance)

(***************************************************************************)
(* Properties.  In a state with pc = "physics" applyPhysics has just       *)
(* returned: tilesBefore is the grid at the start of the tick, tiles the   *)
(* grid the pass left and tilesToRedraw the list it returned.  In a state  *)
(* with pc = "rendered" drawScreen has applied that list: tiles is the     *)
(* grid after the tick.                                                    *)
(***************************************************************************)
InTick == pc \in {"physics", "rendered"}

\* The indices of the records of tilesToRedraw that name cell (x, y).
RecordsAt(x, y) ==
    {i \in DOMAIN tilesToRedraw : tilesToRedraw[i].x = x /\ tilesToRedraw[i].y = y}

\* The number of cells of grid t that hold value v.
Count(t, v) == Cardinality({c \in Columns \X Rows : t[c[1]][c[2]] = v})

\* Some visit of the pass did a vertical swap, some visit a horizontal one.
SomeFell == \E i \in DOMAIN scanLog : scanLog[i].fell
SomeFlowed == \E i \in DOMAIN scanLog : scanLog[i].flowed

C2_NoSentinelOutsideRender ==
    /\ pc # "physics" =>
          \A x \in Columns, y \in Rows : tiles[x][y] # SENTINEL
    /\ pc = "handled" =>
          /\ \A x \in Columns, y \in Rows : tilesBefore[x][y] # SENTINEL
          /\ \A i \in DOMAIN tilesToRedraw : tilesToRedraw[i].value # SENTINEL
    /\ currentTileType # SENTINEL

\* A render step that moved tiles has completed on a grid holding a painted
\* colour tile: a paint came first, then the tick.
C2_Witness ==
    /\ pc = "rendered"
    /\ tilesToRedraw # <<>>
    /\ \E x \in Columns, y \in Rows : tilesBefore[x][y] = "1"
    /\ \A x \in Columns, y \in Rows : tiles[x][y] # SENTINEL

\* C3: a tick leaves the number of cells holding each tile value unchanged.
C3_Conservation ==
    pc = "rendered" =>
        \A v \in TILE_COLORS \cup {SENTINEL} : Count(tiles, v) = Count(tilesBefore, v)

\* A completed tick that changed the grid by both kinds of swap.
C3_Witness ==
    /\ pc = "rendered"
    /\ tiles # tilesBefore
    /\ SomeFell /\ SomeFlowed
    /\ \A v \in TILE_COLORS : Count(tiles, v) = Count(tilesBefore, v)

\* C4: every record applyPhysics returns names a cell of the grid.
C4_Bounds ==
    InTick =>
        \A i \in DOMAIN tilesToRedraw :
            /\ 0 <= tilesToRedraw[i].x /\ tilesToRedraw[i].x < horizontalTileCount
            /\ 0 <= tilesToRedraw[i].y /\ tilesToRedraw[i].y < verticalTileCount

\* A pass whose list names a bottom-row cell (the lower cell of a vertical
\* swap) and a cell of column 0 (the left cell of a horizontal swap).
C4_Witness ==
    /\ pc = "physics"
    /\ \E i \in DOMAIN scanLog :
          scanLog[i].fell /\ scanLog[i].y + 1 = verticalTileCount - 1
    /\ \E i \in DOMAIN scanLog : scanLog[i].flowed /\ scanLog[i].x - 1 = 0
    /\ \E i \in DOMAIN tilesToRedraw : tilesToRedraw[i].y = verticalTileCount - 1
    /\ \E i \in DOMAIN tilesToRedraw : tilesToRedraw[i].x = 0

\* C5: in one tick no cell is named by more than one record; the records
\* come in pairs that exchange the start-of-tick values of two adjacent
\* cells, and the grid after the tick is the grid before it with exactly
\* those exchanges made, so no tile moves more than one cell.
C5_SingleMove ==
    InTick =>
        /\ \A x \in Columns, y \in Rows : Cardinality(RecordsAt(x, y)) <= 1
        /\ Len(tilesToRedraw) % 2 = 0
        /\ \A k \in 1 .. (Len(tilesToRedraw) \div 2) :
              LET a == tilesToRedraw[2 * k - 1]
                  b == tilesToRedraw[2 * k]
              IN /\ \/ a.x = b.x /\ b.y = a.y + 1
                    \/ a.y = b.y /\ b.x = a.x - 1
                 /\ a.value = tilesBefore[b.x][b.y]
                 /\ b.value = tilesBefore[a.x][a.y]
                 /\ pc = "rendered" =>
                       /\ tiles[a.x][a.y] = tilesBefore[b.x][b.y]
                       /\ tiles[b.x][b.y] = tilesBefore[a.x][a.y]
        /\ pc = "rendered" =>
              \A x \in Columns, y \in Rows :
                  RecordsAt(x, y) = {} => tiles[x][y] = tilesBefore[x][y]

\* Land over Water over Air: the Land advanced one row and the Water it
\* displaced did not fall in the same tick.
C5_Witness ==
    /\ pc = "rendered"
    /\ \E x \in Columns, y \in Rows :
          /\ y + 2 < verticalTileCount
          /\ tilesBefore[x][y] = TILE_LAND
          /\ tilesBefore[x][y + 1] = TILE_WATER
          /\ tilesBefore[x][y + 2] = TILE_AIR
          /\ tiles[x][y] = TILE_WATER
          /\ tiles[x][y + 1] = TILE_LAND
          /\ tiles[x][y + 2] = TILE_AIR

\* C6: a cell that holds a static variant at the start of a tick holds the
\* same value when applyPhysics returns (never the sentinel) and after the
\* tick, no record names it, and no cell becomes static in a tick: over
\* ticks alone the static cells and their values are constant.
C6_StaticImmovable ==
    InTick =>
        \A x \in Columns, y \in Rows :
            /\ tilesBefore[x][y] \in StaticTiles =>
                  /\ tiles[x][y] = tilesBefore[x][y]
                  /\ RecordsAt(x, y) = {}
            /\ tiles[x][y] \in StaticTiles => tilesBefore[x][y] = tiles[x][y]

\* A tick moved tiles while a coloured static tile with Land resting on it
\* and a static tile with Water beside it stayed.
C6_Witness ==
    /\ pc = "rendered"
    /\ tiles # tilesBefore
    /\ \E x \in Columns, y \in Rows :
          /\ y > 0
          /\ tilesBefore[x][y] = "="
          /\ tilesBefore[x][y - 1] = TILE_LAND
          /\ tiles[x][y] = "="
    /\ \E x \in Columns, y \in Rows :
          /\ x + 1 < horizontalTileCount
          /\ tilesBefore[x][y] = TILE_STATIC
          /\ tilesBefore[x + 1][y] = TILE_WATER
          /\ tiles[x][y] = TILE_STATIC

\* C7: Land with Air or Water below it at the start of a tick is, after the
\* tick, one row lower, and its old cell holds what was below.
C7_LandFalls ==
    pc = "rendered" =>
        \A x \in Columns, y \in Rows :
            (/\ y < verticalTileCount - 1
             /\ tilesBefore[x][y] = TILE_LAND
             /\ tilesBefore[x][y + 1] \in {TILE_AIR, TILE_WATER})
            => /\ tiles[x][y + 1] = TILE_LAND
               /\ tiles[x][y] = tilesBefore[x][y + 1]

\* Land sank through Water in one column and fell through Air in another.
C7_Witness ==
    /\ pc = "rendered"
    /\ \E x \in Columns, y \in Rows :
          /\ y < verticalTileCount - 1
          /\ tilesBefore[x][y] = TILE_LAND /\ tilesBefore[x][y + 1] = TILE_WATER
          /\ tiles[x][y] = TILE_WATER /\ tiles[x][y + 1] = TILE_LAND
    /\ \E x \in Columns, y \in Rows :
          /\ y < verticalTileCount - 1
          /\ tilesBefore[x][y] = TILE_LAND /\ tilesBefore[x][y + 1] = TILE_AIR
          /\ tiles[x][y] = TILE_AIR /\ tiles[x][y + 1] = TILE_LAND

\* C8 as stated: Water with Air below it at the start of a tick is, after
\* the tick, one row lower and its old cell holds Air.
C8_Original ==
    pc = "rendered" =>
        \A x \in Columns, y \in Rows :
            (/\ y < verticalTileCount - 1
             /\ tilesBefore[x][y] = TILE_WATER
             /\ tilesBefore[x][y + 1] = TILE_AIR)
            => /\ tiles[x][y + 1] = TILE_WATER
               /\ tiles[x][y] = TILE_AIR

\* C8, amended: Water with Air below it at the start of a tick, and without
\* Land directly above it at the start of the tick, is one row lower after
\* the tick and its old cell holds Air.
C8_Amended ==
    pc = "rendered" =>
        \A x \in Columns, y \in Rows :
            (/\ y < verticalTileCount - 1
             /\ tilesBefore[x][y] = TILE_WATER
             /\ tilesBefore[x][y + 1] = TILE_AIR
             /\ ~(y > 0 /\ tilesBefore[x][y - 1] = TILE_LAND))
            => /\ tiles[x][y + 1] = TILE_WATER
               /\ tiles[x][y] = TILE_AIR

\* Water below the top row, with Water above it and Air below it, fell.
C8_Witness ==
    /\ pc = "rendered"
    /\ \E x \in Columns, y \in Rows :
          /\ y > 0 /\ y < verticalTileCount - 1
          /\ tilesBefore[x][y - 1] = TILE_WATER
          /\ tilesBefore[x][y] = TILE_WATER
          /\ tilesBefore[x][y + 1] = TILE_AIR
          /\ tiles[x][y + 1] = TILE_WATER
          /\ tiles[x][y] = TILE_AIR

\* The grid of Scenario A and the grid one tick makes of it.
ScenarioA ==
    [x \in 0 .. 1 |-> IF x = 0 THEN [y \in 0 .. 1 |-> IF y = 0 THEN TILE_LAND ELSE TILE_AIR]
                      ELSE [y \in 0 .. 1 |-> IF y = 0 THEN TILE_STATIC ELSE TILE_AIR]]
ScenarioAResult ==
    [x \in 0 .. 1 |-> IF x = 0 THEN [y \in 0 .. 1 |-> IF y = 0 THEN TILE_AIR ELSE TILE_LAND]
                      ELSE [y \in 0 .. 1 |-> IF y = 0 THEN TILE_STATIC ELSE TILE_AIR]]

\* C9: on the 2 x 2 grid of Scenario A a tick returns exactly the records
\* (0,0) -> Air and (0,1) -> Land, whatever the coin flip, and leaves
\* column 0 = [Air, Land], column 1 = [Static, Air].
C9_ScenarioA ==
    (/\ InTick
     /\ horizontalTileCount = 2 /\ verticalTileCount = 2
     /\ tilesBefore = ScenarioA)
    => /\ tilesToRedraw = <<Record(0, 0, TILE_AIR), Record(0, 1, TILE_LAND)>>
       /\ pc = "rendered" => tiles = ScenarioAResult

\* Scenario A has been ticked, with coin flip 1 at cell (1, 0).
C9_Witness ==
    /\ pc = "rendered"
    /\ horizontalTileCount = 2 /\ verticalTileCount = 2
    /\ tilesBefore = ScenarioA
    /\ tiles = ScenarioAResult
    /\ \E i \in DOMAIN scanLog :
          scanLog[i].x = 1 /\ scanLog[i].y = 0 /\ scanLog[i].cointFlip = 1

\* C10: no cell visit does both a vertical and a horizontal swap; a visit of
\* a cell (x, y), x > 0, that finds Water there, Air below, Air to the left
\* and Air below-left does the vertical swap only, whatever its coin flip:
\* the cell is named by one record, the one of the vertical swap, and after
\* the tick the Water is at (x, y + 1) and (x, y) holds Air.
C10_ScenarioB ==
    InTick =>
        \A i \in DOMAIN scanLog :
            LET v == scanLog[i]
            IN /\ ~(v.fell /\ v.flowed)
               /\ (/\ v.x > 0
                   /\ v.tile = TILE_WATER /\ v.tileBelow = TILE_AIR
                   /\ v.tileBefore = TILE_AIR /\ v.tileBelowBefore = TILE_AIR)
                  => /\ v.fell /\ ~v.flowed
                     /\ \E j \in DOMAIN tilesToRedraw :
                           /\ RecordsAt(v.x, v.y) = {j}
                           /\ tilesToRedraw[j].value = TILE_AIR
                           /\ j + 1 \in DOMAIN tilesToRedraw
                           /\ tilesToRedraw[j + 1] = Record(v.x, v.y + 1, TILE_WATER)
                     /\ pc = "rendered" =>
                           /\ tiles[v.x][v.y + 1] = TILE_WATER
                           /\ tiles[v.x][v.y] = TILE_AIR
                           /\ tiles[v.x - 1][v.y] # TILE_WATER

\* Scenario B has been ticked with coin flip 1, the flip that lets Water
\* flow left: the Water fell and did not flow.
C10_Witness ==
    /\ pc = "rendered"
    /\ \E i \in DOMAIN scanLog :
          LET v == scanLog[i]
          IN /\ v.x > 0 /\ v.cointFlip = 1
             /\ v.tile = TILE_WATER /\ v.tileBelow = TILE_AIR
             /\ v.tileBefore = TILE_AIR /\ v.tileBelowBefore = TILE_AIR
             /\ v.fell /\ ~v.flowed
             /\ tiles[v.x][v.y + 1] = TILE_WATER

(***************************************************************************)
(* C11.  Bottom-row stability: a grid that holds Land in every cell of its *)
(* bottom row and Air in every other cell is a fixed point of the tick.    *)
(* Whatever the coin flips, the tick returns the empty list and leaves the *)
(* grid as it was, so that any number of repeated ticks does the same.     *)
(***************************************************************************)
LandFloor(t) ==
    \A x \in Columns : \A y \in Rows :
        t[x][y] = IF y = verticalTileCount - 1 THEN TILE_LAND ELSE TILE_AIR

C11_BottomRowStable ==
    (InTick /\ LandFloor(tilesBefore)) =>
        /\ tilesToRedraw = <<>>
        /\ tiles = tilesBefore
        /\ \A i \in DOMAIN scanLog : ~scanLog[i].fell /\ ~scanLog[i].flowed

\* A tick over a land floor with air above it has ended, with a coin flip of
\* each kind drawn beside the floor.
C11_Witness ==
    /\ pc = "rendered"
    /\ LandFloor(tilesBefore)
    /\ LandFloor(tiles)
    /\ verticalTileCount >= 2
    /\ \E i, j \in DOMAIN scanLog :
          /\ scanLog[i].flipped /\ scanLog[i].cointFlip = 0
          /\ scanLog[j].flipped /\ scanLog[j].cointFlip = 1

(***************************************************************************)
(* C12.  Paint in bounds: while drawing is active, a pointer event over    *)
(* the cell (x, y) of the grid, 0 <= x < W and 0 <= y < H, sets exactly    *)
(* that cell to the currently selected tile type, hands drawScreen exactly *)
(* one record {x, y, currentTileType}, and leaves every other cell and the *)
(* selected tile type unchanged.                                           *)
(***************************************************************************)
\* Does the pointer of event e lie over the cell (x, y)?
PointerOver(e, x, y) ==
    /\ tileSize * x <= e.offsetX /\ e.offsetX < tileSize * (x + 1)
    /\ tileSize * y <= e.offsetY /\ e.offsetY < tileSize * (y + 1)

Painting ==
    /\ pc = "idle" /\ pc' = "handled"
    /\ event'.type \in {"mousedown", "mousemove"}
    /\ isDrawing'

C12_PaintInBounds ==
    [][\A x \in Columns : \A y \in Rows :
          (Painting /\ PointerOver(event', x, y)) =>
              /\ tilesToRedraw' = <<Record(x, y, currentTileType)>>
              /\ tiles' = [tiles EXCEPT ![x][y] = currentTileType]
              /\ currentTileType' = currentTileType]_vars

\* A drag has painted a cell with a selected colour it did not hold.
C12_Witness ==
    /\ pc = "handled"
    /\ event.type = "mousemove"
    /\ isDrawing
    /\ currentTileType = "1"
    /\ \E x \in Columns : \E y \in Rows :
          /\ PointerOver(event, x, y)
          /\ tilesToRedraw = <<Record(x, y, "1")>>
          /\ tilesBefore[x][y] # "1"
          /\ tiles = [tilesBefore EXCEPT ![x][y] = "1"]

(***************************************************************************)
(* C13.  Paint out of bounds is a no-op: a pointer event at a coordinate   *)
(* with x < 0, x >= W, y < 0 or y >= H, in particular at (W, 0), one past  *)
(* the right edge, leaves the whole grid unchanged and hands drawScreen    *)
(* nothing, so that no grid cell is touched.                               *)
(***************************************************************************)
PointerOutside(e) ==
    \/ e.offsetX < 0 \/ e.offsetX >= tileSize * horizontalTileCount
    \/ e.offsetY < 0 \/ e.offsetY >= tileSize * verticalTileCount

C13_PaintOutOfBounds ==
    (/\ pc = "handled"
     /\ event.type \in {"mousedown", "mousemove"}
     /\ PointerOutside(event)) =>
        /\ tilesToRedraw = <<>>
        /\ tiles = tilesBefore

\* A drag has reached the first pixel past the right edge, in the top row.
C13_Witness ==
    /\ pc = "handled"
    /\ event.type = "mousemove"
    /\ isDrawing
    /\ event.offsetX = tileSize * horizontalTileCount
    /\ event.offsetY = 0
    /\ tilesToRedraw = <<>>
    /\ tiles = tilesBefore
    /\ \E x \in Columns : \E y \in Rows : tiles[x][y] # currentTileType

(***************************************************************************)
(* C14.  Tile-type selection changes the selected type if and only if the  *)
(* tag is recognized: a key press whose key is a key of TILE_COLORS makes  *)
(* that key the current tile type, a key press with any other key leaves   *)
(* the current tile type as it was, and in neither case does the grid      *)
(* change.  The code does not meet it: the truthiness test of line 149     *)
(* also accepts the names TILE_COLORS inherits from Object.prototype, and  *)
(* the key "constructor" becomes the current tile type.                    *)
(***************************************************************************)
Selecting ==
    /\ pc = "idle" /\ pc' = "handled"
    /\ event'.type = "keypress"

C14_SelectionIffRecognized ==
    [][Selecting =>
          /\ currentTileType' = IF event'.key \in TILE_COLORS
                                 THEN event'.key
                                 ELSE currentTileType
          /\ tiles' = tiles
          /\ tilesToRedraw' = <<>>]_vars

(***************************************************************************)
(* C15.  Clear and its idempotence: from any reachable grid, releasing     *)
(* Escape sets every cell to Air and hands drawScreen exactly one record   *)
(* per cell, W*H records, all with value Air; this holds as well when the  *)
(* grid is already all Air, so that a second clear in a row leaves all Air *)
(* again and still produces W*H records.  Releasing any other key changes  *)
(* nothing.                                                                *)
(***************************************************************************)
Clearing ==
    /\ pc = "idle" /\ pc' = "handled"
    /\ event'.type = "keyup"

AllAir(t) == \A x \in Columns : \A y \in Rows : t[x][y] = TILE_AIR

C15_ClearIdempotent ==
    [][Clearing =>
          IF event'.keyCode = 27
          THEN /\ AllAir(tiles')
               /\ Len(tilesToRedraw') = horizontalTileCount * verticalTileCount
               /\ \A x \in Columns : \A y \in Rows :
                     \E i \in DOMAIN tilesToRedraw' :
                         tilesToRedraw'[i] = Record(x, y, TILE_AIR)
          ELSE /\ UNCHANGED <<tiles, isDrawing, currentTileType>>
               /\ tilesToRedraw' = <<>>]_vars

\* Escape has been released over a grid that was already all Air, of two
\* cells or more, and every cell has been handed to drawScreen again.
C15_Witness ==
    /\ pc = "handled"
    /\ event.type = "keyup"
    /\ event.keyCode = 27
    /\ AllAir(tilesBefore)
    /\ AllAir(tiles)
    /\ horizontalTileCount * verticalTileCount >= 2
    /\ Len(tilesToRedraw) = horizontalTileCount * verticalTileCount

(***************************************************************************)
(* C16.  Incremental redraw consistency: after every operation (the        *)
(* enumeration of the constructor, a render step, a paint, a clear), for   *)
(* every cell the value last drawn on the canvas is the value the grid     *)
(* holds.  This is achieved with the changed-cell lists alone: a render    *)
(* step draws only cells whose value the tick changed, a paint draws at    *)
(* most one cell, and every cell is enumerated only by the constructor and *)
(* by a clear.                                                             *)
(***************************************************************************)
C16_RedrawConsistent ==
    /\ pc # "physics" => screenCanvas = tiles
    /\ pc = "rendered" =>
          \A i \in DOMAIN tilesToRedraw :
              tiles[tilesToRedraw[i].x][tilesToRedraw[i].y]
                  # tilesBefore[tilesToRedraw[i].x][tilesToRedraw[i].y]
    /\ (pc = "handled" /\ event.type \in {"mousedown", "mousemove"}) =>
          Len(tilesToRedraw) <= 1
    /\ (pc = "handled" /\ event.type \in {"mouseup", "keypress"}) =>
          tilesToRedraw = <<>>

\* A render step has redrawn some cells of a grid and left another alone,
\* on a grid that a paint has changed since it was constructed.
C16_Witness ==
    /\ pc = "rendered"
    /\ tilesToRedraw # <<>>
    /\ Len(tilesToRedraw) < horizontalTileCount * verticalTileCount
    /\ \E x \in Columns : \E y \in Rows : tiles[x][y] = "1"
    /\ screenCanvas = tiles
    /\ screenCanvas # tilesBefore

(***************************************************************************)
(* C17.  Edge guards: during a tick no grid cell is read or written at an  *)
(* out-of-range coordinate; the below neighbour (x, y+1) is consulted only *)
(* when y < H-1, and the left neighbours (x-1, y) and (x-1, y+1) only when *)
(* x > 0 and y < H-1.  The code does not meet it for the below neighbour:  *)
(* line 261 reads tiles[x][y+1] for every cell, ahead of the guard of line *)
(* 264, and in the bottom row the read is at row H and yields undefined.   *)
(* The left neighbours are read, and all cells are written, under the      *)
(* guards.                                                                 *)
(***************************************************************************)
C17_EdgeGuards ==
    InTick =>
        /\ \A i \in DOMAIN scanLog :
              LET v == scanLog[i]
              IN /\ v.tileBelow # "unread" => v.y < verticalTileCount - 1
                 /\ v.tileBelow # UNDEFINED
                 /\ v.tileBefore # "unread" =>
                        v.x > 0 /\ v.y < verticalTileCount - 1
                 /\ v.tileBelowBefore # "unread" =>
                        v.x > 0 /\ v.y < verticalTileCount - 1
                 /\ v.tileBefore # UNDEFINED /\ v.tileBelowBefore # UNDEFINED
        /\ \A i \in DOMAIN tilesToRedraw :
              tilesToRedraw[i].x \in Columns /\ tilesToRedraw[i].y \in Rows

(***************************************************************************)
(* C18.  Free-falling water does not flow sideways: in any tick, a Water   *)
(* tile whose cell directly below holds Air at the start of the tick is in *)
(* neither cell of any horizontal swap of that tick, be it as the current  *)
(* cell moving left (coin flip 1) or as the left neighbour of an Air cell  *)
(* (coin flip 0); every horizontal swap exchanges an Air cell with a Water *)
(* tile that was there at the start of the tick and whose cell below did   *)
(* not hold Air then.                                                      *)
(***************************************************************************)
\* A water tile with air below it when the tick started.
FreeFalling(x, y) ==
    /\ y < verticalTileCount - 1
    /\ tilesBefore[x][y] = TILE_WATER
    /\ tilesBefore[x][y + 1] = TILE_AIR

C18_NoSidewaysFreeFall ==
    InTick =>
        \A i \in DOMAIN scanLog :
            LET v == scanLog[i]
                wx == IF v.cointFlip = 1 THEN v.x ELSE v.x - 1
                ax == IF v.cointFlip = 1 THEN v.x - 1 ELSE v.x
            IN v.flowed =>
                  /\ tilesBefore[wx][v.y] = TILE_WATER
                  /\ tilesBefore[ax][v.y] = TILE_AIR
                  /\ tilesBefore[wx][v.y + 1] # TILE_AIR
                  /\ ~FreeFalling(v.x, v.y)
                  /\ ~FreeFalling(v.x - 1, v.y)

\* A tick in which a free-falling water tile has fallen, and in which, in
\* another row, the water on the left of an air cell has flowed to the right.
C18_Witness ==
    /\ pc = "rendered"
    /\ \E i, j \in DOMAIN scanLog :
          /\ scanLog[i].fell
          /\ FreeFalling(scanLog[i].x, scanLog[i].y)
          /\ scanLog[j].flowed
          /\ scanLog[j].cointFlip = 0
          /\ scanLog[j].y # scanLog[i].y
          /\ tiles[scanLog[j].x][scanLog[j].y] = TILE_WATER

(***************************************************************************)
(* C19.  Blocking: a Land tile whose cell below holds Land or a static     *)
(* variant at the start of a tick, and any Land tile in the bottom row, is *)
(* left in place by that tick.  A tile resting on a neighbour it cannot    *)
(* pass (a static variant or Land, and for Water also Water) does not fall *)
(* and does not displace that neighbour: every vertical swap moves Land    *)
(* into Air or Water, or Water into Air.                                   *)
(***************************************************************************)
\* Does a tile holding `below` stop the fall of `tile` resting on it?
Blocks(below, tile) ==
    \/ below \in StaticTiles \cup {TILE_LAND}
    \/ tile = TILE_WATER /\ below = TILE_WATER

RestingLand(x, y) ==
    /\ tilesBefore[x][y] = TILE_LAND
    /\ \/ y = verticalTileCount - 1
       \/ tilesBefore[x][y + 1] \in StaticTiles \cup {TILE_LAND}

C19_Blocking ==
    InTick =>
        /\ \A x \in Columns : \A y \in Rows :
              RestingLand(x, y) => tiles[x][y] = TILE_LAND /\ RecordsAt(x, y) = {}
        /\ \A i \in DOMAIN scanLog :
              LET v == scanLog[i]
              IN /\ (/\ v.y < verticalTileCount - 1
                     /\ tilesBefore[v.x][v.y] \in {TILE_LAND, TILE_WATER}
                     /\ Blocks(tilesBefore[v.x][v.y + 1], tilesBefore[v.x][v.y]))
                        => ~v.fell
                 /\ v.fell =>
                        \/ v.tile = TILE_LAND /\ v.tileBelow \in {TILE_AIR, TILE_WATER}
                        \/ v.tile = TILE_WATER /\ v.tileBelow = TILE_AIR

\* A tick in which one tile has fallen while Land has rested on a static
\* variant, Land has rested in the bottom row, and Water has rested on Water.
C19_Witness ==
    /\ pc = "rendered"
    /\ SomeFell
    /\ \E x \in Columns : \E y \in Rows :
          /\ y < verticalTileCount - 1
          /\ tilesBefore[x][y] = TILE_LAND
          /\ tilesBefore[x][y + 1] = "="
          /\ tiles[x][y] = TILE_LAND
    /\ \E x \in Columns :
          /\ tilesBefore[x][verticalTileCount - 1] = TILE_LAND
          /\ tiles[x][verticalTileCount - 1] = TILE_LAND
    /\ \E i \in DOMAIN scanLog :
          /\ scanLog[i].tile = TILE_WATER
          /\ scanLog[i].tileBelow = TILE_WATER
          /\ ~scanLog[i].fell

(***************************************************************************)
(* C20.  The bottom row never initiates a rule: in any tick the visit of a *)
(* cell of row H-1 fires neither rule and draws no coin flip, and a cell   *)
(* of row H-1 changes only as the lower cell of a vertical swap started at *)
(* the cell above it, in row H-2.  No horizontal swap involves two cells   *)
(* of the bottom row, so a Water tile of the bottom row never moves        *)
(* sideways: it stays, or rises one row under Land falling onto it.        *)
(***************************************************************************)
BottomRow == verticalTileCount - 1

C20_BottomRowPassive ==
    InTick =>
        /\ \A i \in DOMAIN scanLog :
              scanLog[i].y = BottomRow =>
                  /\ ~scanLog[i].fell
                  /\ ~scanLog[i].flowed
                  /\ ~scanLog[i].flipped
        /\ \A i \in DOMAIN tilesToRedraw :
              tilesToRedraw[i].y = BottomRow =>
                  /\ i > 1
                  /\ i % 2 = 0
                  /\ tilesToRedraw[i - 1].x = tilesToRedraw[i].x
                  /\ tilesToRedraw[i - 1].y = BottomRow - 1
                  /\ \E j \in DOMAIN scanLog :
                        /\ scanLog[j].x = tilesToRedraw[i].x
                        /\ scanLog[j].y = BottomRow - 1
                        /\ scanLog[j].fell
        /\ \A x \in Columns :
              /\ tiles[x][BottomRow] # tilesBefore[x][BottomRow] =>
                     RecordsAt(x, BottomRow) # {}
              /\ (pc = "rendered" /\ tilesBefore[x][BottomRow] = TILE_WATER) =>
                     \/ tiles[x][BottomRow] = TILE_WATER
                     \/ /\ tiles[x][BottomRow] = TILE_LAND
                        /\ tiles[x][BottomRow - 1] = TILE_WATER
                        /\ tilesBefore[x][BottomRow - 1] = TILE_LAND

\* A tick has left a Water tile of the bottom row beside an Air cell of the
\* bottom row, both as they were, while a tile fell into the bottom row in
\* another column.
C20_Witness ==
    /\ pc = "rendered"
    /\ verticalTileCount >= 2
    /\ \E x \in Columns :
          /\ x > 0
          /\ tilesBefore[x - 1][BottomRow] = TILE_WATER
          /\ tilesBefore[x][BottomRow] = TILE_AIR
          /\ tiles[x - 1][BottomRow] = TILE_WATER
          /\ tiles[x][BottomRow] = TILE_AIR
    /\ \E i \in DOMAIN tilesToRedraw : tilesToRedraw[i].y = BottomRow

(***************************************************************************)
(* C21.  Bidirectional flow: for a Water tile at (x, y), 0 < x < W-1 and   *)
(* y < H-1, resting on a cell that is not Air, with Air at (x-1, y) and at *)
(* (x+1, y), where (x+1, y) rests on a cell that is not Air either, one    *)
(* tick can move the Water to (x-1, y), by a coin flip of 1 at (x, y), and *)
(* can move it to (x+1, y), by a coin flip of 0 at (x+1, y).  Both         *)
(* outcomes are reachable, never both in the same tick, and the pair       *)
(* (x, y)/(x-1, y) is examined once per tick.                              *)
(***************************************************************************)
\* One tick on grid t with the coin flips `flips': the grid it leaves once
\* the list is drawn, and the log of the scan.
Tick(t, flips) ==
    LET r == applyPhysics(t, horizontalTileCount, verticalTileCount, flips)
    IN [tiles |-> drawScreen(r.tiles, r.tilesToRedraw), log |-> r.log]

AllFlips == [FlipCells(horizontalTileCount, verticalTileCount) -> {0, 1}]

\* The entry of the scan log for the visit of cell (x, y).
VisitOf(log, x, y) == log[x * verticalTileCount + y + 1]

\* The tick moves the Water of (x, y) to the left, to the right.
MovesLeft(t, x, y, flips) ==
    LET r == Tick(t, flips)
    IN /\ VisitOf(r.log, x, y).flowed
       /\ VisitOf(r.log, x, y).cointFlip = 1
       /\ r.tiles[x - 1][y] = TILE_WATER
       /\ r.tiles[x][y] = TILE_AIR

MovesRight(t, x, y, flips) ==
    LET r == Tick(t, flips)
    IN /\ VisitOf(r.log, x + 1, y).flowed
       /\ VisitOf(r.log, x + 1, y).cointFlip = 0
       /\ r.tiles[x + 1][y] = TILE_WATER
       /\ r.tiles[x][y] = TILE_AIR

\* Never both in one tick, and one visit, with one coin flip, for the pair.
OneDirection(x, y) ==
    /\ ~(VisitOf(scanLog, x, y).flowed /\ VisitOf(scanLog, x + 1, y).flowed)
    /\ Cardinality({i \in DOMAIN scanLog :
                        scanLog[i].x = x /\ scanLog[i].y = y}) = 1
    /\ VisitOf(scanLog, x, y).x = x /\ VisitOf(scanLog, x, y).y = y
    /\ VisitOf(scanLog, x, y).flipped

C21_Original ==
    /\ pc = "idle" =>
          \A x \in Columns : \A y \in Rows :
              WaterBetweenAir(tiles, horizontalTileCount, verticalTileCount, x, y) =>
                  /\ \E flips \in AllFlips : MovesLeft(tiles, x, y, flips)
                  /\ \E flips \in AllFlips : MovesRight(tiles, x, y, flips)
    /\ InTick =>
          \A x \in Columns : \A y \in Rows :
              WaterBetweenAir(tilesBefore, horizontalTileCount, verticalTileCount, x, y)
                  => OneDirection(x, y)

\* Nothing falls into the three cells in this tick: no Land above the Water,
\* neither Land nor Water above the two Air cells.
NothingFallsIn(t, x, y) ==
    y > 0 =>
        /\ t[x][y - 1] # TILE_LAND
        /\ t[x - 1][y - 1] \notin {TILE_LAND, TILE_WATER}
        /\ t[x + 1][y - 1] \notin {TILE_LAND, TILE_WATER}

\* C21 as amended: the same, for a Water tile into whose cell and into whose
\* two Air neighbours nothing falls in the tick.
C21_Amended ==
    /\ pc = "idle" =>
          \A x \in Columns : \A y \in Rows :
              (/\ WaterBetweenAir(tiles, horizontalTileCount, verticalTileCount, x, y)
               /\ NothingFallsIn(tiles, x, y)) =>
                  /\ \E flips \in AllFlips : MovesLeft(tiles, x, y, flips)
                  /\ \E flips \in AllFlips : MovesRight(tiles, x, y, flips)
    /\ InTick =>
          \A x \in Columns : \A y \in Rows :
              WaterBetweenAir(tilesBefore, horizontalTileCount, verticalTileCount, x, y)
                  => OneDirection(x, y)

\* A tick on a grid of three rows has moved such a Water tile of the middle
\* row to the right, from under another Water tile, which has stayed.
C21_Witness ==
    /\ pc = "rendered"
    /\ \E x \in Columns :
          /\ tilesBefore[x][0] = TILE_WATER
          /\ tiles[x][0] = TILE_WATER
          /\ WaterBetweenAir(tilesBefore, horizontalTileCount, verticalTileCount, x, 1)
          /\ NothingFallsIn(tilesBefore, x, 1)
          /\ VisitOf(scanLog, x + 1, 1).flowed
          /\ VisitOf(scanLog, x + 1, 1).cointFlip = 0
          /\ tiles[x + 1][1] = TILE_WATER
          /\ tiles[x][1] = TILE_AIR

(***************************************************************************)
(* C22.  Changed-cell list exactness for a tick: the coordinates in the    *)
(* list returned by applyPhysics are exactly the cells whose value after   *)
(* the tick differs from their value before it.  Every swap contributes    *)
(* exactly two records, which carry the two values exchanged; no unchanged *)
(* cell is reported; a tick in which no rule fires returns the empty list. *)
(***************************************************************************)
\* The cells named by the list, and the number of swaps of the pass.
ReportedCells == {<<tilesToRedraw[i].x, tilesToRedraw[i].y>> : i \in DOMAIN tilesToRedraw}

Swaps ==
    Cardinality({i \in DOMAIN scanLog : scanLog[i].fell})
    + Cardinality({i \in DOMAIN scanLog : scanLog[i].flowed})

\* The value the tick leaves in cell c: the value of the record naming it, or
\* the value it had.
ValueAfter(c) ==
    IF pc = "rendered" \/ RecordsAt(c[1], c[2]) = {}
    THEN tiles[c[1]][c[2]]
    ELSE tilesToRedraw[CHOOSE i \in RecordsAt(c[1], c[2]) : TRUE].value

C22_ListExact ==
    InTick =>
        /\ ReportedCells =
              {c \in Columns \X Rows : ValueAfter(c) # tilesBefore[c[1]][c[2]]}
        /\ Len(tilesToRedraw) = 2 * Swaps
        /\ Cardinality(ReportedCells) = Len(tilesToRedraw)
        /\ \A k \in 1 .. Swaps :
              LET a == tilesToRedraw[2 * k - 1]
                  b == tilesToRedraw[2 * k]
              IN /\ a.value = tilesBefore[b.x][b.y]
                 /\ b.value = tilesBefore[a.x][a.y]
                 /\ a.value # b.value
        /\ Swaps = 0 => tilesToRedraw = <<>> /\ tiles = tilesBefore

\* A tick with a vertical and a horizontal swap has ended, and has left some
\* cell as it was.
C22_Witness ==
    /\ pc = "rendered"
    /\ SomeFell /\ SomeFlowed
    /\ Len(tilesToRedraw) = 4
    /\ \E x \in Columns : \E y \in Rows :
          tiles[x][y] = tilesBefore[x][y] /\ RecordsAt(x, y) = {}

(***************************************************************************)
(* C23.  Drawing gate: a pointer move paints a cell only between a mouse   *)
(* down on the canvas and the next mouse up.  The drawing flag is false    *)
(* when the game is constructed, is set by mouse down, which also paints   *)
(* at the pointer position, is cleared by mouse up, and is changed by      *)
(* nothing else; while it is false no pointer move changes the grid or     *)
(* produces a changed-cell record, and while it is true a pointer move     *)
(* over a cell paints that cell.                                           *)
(***************************************************************************)
Handling(type) == pc = "idle" /\ pc' = "handled" /\ event'.type = type

C23_DrawingGate ==
    [][/\ pc = "constructed" => ~isDrawing
       /\ Handling("mousedown") =>
              /\ isDrawing'
              /\ \E x \in Columns : \E y \in Rows :
                    /\ PointerOver(event', x, y)
                    /\ tilesToRedraw' = <<Record(x, y, currentTileType)>>
                    /\ tiles'[x][y] = currentTileType
       /\ Handling("mouseup") => ~isDrawing'
       /\ ~(Handling("mousedown") \/ Handling("mouseup")) =>
              isDrawing' = isDrawing
       /\ (Handling("mousemove") /\ ~isDrawing) =>
              tiles' = tiles /\ tilesToRedraw' = <<>>
       /\ (Handling("mousemove") /\ isDrawing) =>
              \A x \in Columns : \A y \in Rows :
                  PointerOver(event', x, y) =>
                      /\ tilesToRedraw' = <<Record(x, y, currentTileType)>>
                      /\ tiles'[x][y] = currentTileType]_vars

\* After a drag that ended with a mouse up, the pointer has moved over a
\* cell that does not hold the selected type, and nothing was painted.
C23_Witness ==
    /\ pc = "handled"
    /\ event.type = "mousemove"
    /\ ~isDrawing
    /\ currentTileType = "w"
    /\ tilesToRedraw = <<>>
    /\ tiles = tilesBefore
    /\ \E x \in Columns : \E y \in Rows :
          /\ PointerOver(event, x, y)
          /\ tiles[x][y] # "w"
    /\ \E x \in Columns : \E y \in Rows : tiles[x][y] = "1"

(***************************************************************************)
(* C24.  Initial state: after construction every grid cell holds one of    *)
(* Air, Land, Water and Static ("a", "l", "w", "s"), the enumeration of    *)
(* the constructor holds exactly one record per cell, which carries the    *)
(* value of that cell, and the selected tile type is Static ("s").  The    *)
(* selected type changes at key presses only, so that a paint before any   *)
(* selection writes "s".                                                   *)
(***************************************************************************)
Constructed ==
    /\ \A x \in Columns : \A y \in Rows :
          /\ tiles[x][y] \in {"a", "l", "w", "s"}
          /\ Cardinality(RecordsAt(x, y)) = 1
          /\ \A i \in RecordsAt(x, y) : tilesToRedraw[i].value = tiles[x][y]
    /\ Len(tilesToRedraw) = horizontalTileCount * verticalTileCount
    /\ currentTileType = "s"

C24_InitialState ==
    [][/\ pc = "constructed" => Constructed
       /\ ~Handling("keypress") => currentTileType' = currentTileType
       /\ (Painting /\ currentTileType = "s") =>
              \A x \in Columns : \A y \in Rows :
                  PointerOver(event', x, y) => tiles'[x][y] = "s"]_vars

\* With the selection still as constructed, a mouse down has painted "s"
\* over a cell that held another value.
C24_Witness ==
    /\ pc = "handled"
    /\ event.type = "mousedown"
    /\ currentTileType = "s"
    /\ \E x \in Columns : \E y \in Rows :
          /\ PointerOver(event, x, y)
          /\ tilesBefore[x][y] # "s"
          /\ tiles[x][y] = "s"
          /\ tilesToRedraw = <<Record(x, y, "s")>>

(***************************************************************************)
(* C25.  Value-domain invariant over any operation sequence: for every     *)
(* interleaving of render steps, paints, selections and clears starting    *)
(* from construction, the selected tile type is always a key of            *)
(* TILE_COLORS and, between operations, every grid cell holds a key of     *)
(* TILE_COLORS.  The code does not meet it: a key press with the key       *)
(* "constructor" passes the test of line 149 (C14), becomes the selected   *)
(* type, and the next paint stores it in the grid.                         *)
(***************************************************************************)
C25_ValueDomain ==
    /\ currentTileType \in TILE_COLORS
    /\ pc \in {"constructed", "idle"} =>
          \A x \in Columns : \A y \in Rows : tiles[x][y] \in TILE_COLORS

(***************************************************************************)
(* C26.  Land moves only downward within its column: for every tick the    *)
(* number of Land tiles of each column is unchanged, no Land tile moves    *)
(* sideways and none moves to a smaller y: a cell that gains Land takes it *)
(* from the cell directly above, and a cell that loses Land gives it to    *)
(* the cell directly below.  Only Water and Air are displaced upward or    *)
(* sideways.                                                               *)
(***************************************************************************)
LandInColumn(t, x) == Cardinality({y \in Rows : t[x][y] = TILE_LAND})

C26_LandOnlyDown ==
    pc = "rendered" =>
        /\ \A x \in Columns : LandInColumn(tiles, x) = LandInColumn(tilesBefore, x)
        /\ \A x \in Columns : \A y \in Rows :
              /\ (tiles[x][y] = TILE_LAND /\ tilesBefore[x][y] # TILE_LAND) =>
                     /\ y > 0
                     /\ tilesBefore[x][y - 1] = TILE_LAND
                     /\ tiles[x][y - 1] = tilesBefore[x][y]
              /\ (tilesBefore[x][y] = TILE_LAND /\ tiles[x][y] # TILE_LAND) =>
                     /\ y < verticalTileCount - 1
                     /\ tiles[x][y + 1] = TILE_LAND
                     /\ tiles[x][y] = tilesBefore[x][y + 1]
        /\ \A i \in DOMAIN scanLog :
              /\ scanLog[i].fell => scanLog[i].tileBelow \in {TILE_AIR, TILE_WATER}
              /\ scanLog[i].flowed =>
                     {scanLog[i].tile, scanLog[i].tileBefore} = {TILE_AIR, TILE_WATER}

\* A tick in which Land has sunk through Water, which rose, while Water
\* flowed sideways elsewhere.
C26_Witness ==
    /\ pc = "rendered"
    /\ SomeFlowed
    /\ \E x \in Columns : \E y \in Rows :
          /\ y < verticalTileCount - 1
          /\ tilesBefore[x][y] = TILE_LAND /\ tilesBefore[x][y + 1] = TILE_WATER
          /\ tiles[x][y] = TILE_WATER /\ tiles[x][y + 1] = TILE_LAND

(***************************************************************************)
(* C27.  Convergence without water: starting from any grid that holds no   *)
(* Water, and with no paint and no clear, repeated ticks reach after       *)
(* finitely many ticks a fixed point in which no Land tile has Air below   *)
(* it, and every later tick returns the empty changed-cell list.           *)
(***************************************************************************)
NoWater(t) == \A x \in Columns : \A y \in Rows : t[x][y] # TILE_WATER

\* No Land tile of grid t has Air directly below it.
LandAtRest(t) ==
    \A x \in Columns : \A y \in Rows :
        (y < verticalTileCount - 1 /\ t[x][y] = TILE_LAND) => t[x][y + 1] # TILE_AIR

AtFixedPoint ==
    /\ LandAtRest(tiles)
    /\ tilesToRedraw = <<>>
    /\ tiles = tilesBefore

C27_DryConvergence == NoWater(tiles) => <>[]AtFixedPoint

\* The tick that reaches the fixed point: Land had Air below it in the grid
\* it started from, on a grid of three rows or more, and has none in the
\* grid it leaves.
C27_Witness ==
    /\ pc = "rendered"
    /\ verticalTileCount >= 3
    /\ NoWater(tilesBefore)
    /\ ~LandAtRest(tilesBefore)
    /\ LandAtRest(tiles)
    /\ tilesToRedraw # <<>>
    /\ \E x \in Columns : \E y \in Rows :
          y < verticalTileCount - 1 /\ tiles[x][y] = TILE_LAND

(***************************************************************************)
(* C28.  Frame conditions between engine and input state: a tick and a     *)
(* clear never change the selected tile type or the drawing flag; a tile   *)
(* type selection, a mouse up and a pointer move with drawing inactive     *)
(* never change any grid cell; the grid dimensions W and H never change    *)
(* after construction.                                                     *)
(***************************************************************************)
TickStep == pc' \in {"physics", "rendered"} \/ pc = "rendered"

C28_Frame ==
    [][/\ UNCHANGED <<horizontalTileCount, verticalTileCount>>
       /\ (TickStep \/ Handling("keyup")) =>
              UNCHANGED <<currentTileType, isDrawing>>
       /\ (\/ Handling("keypress")
           \/ Handling("mouseup")
           \/ Handling("mousemove") /\ ~isDrawing) =>
              tiles' = tiles /\ screenCanvas' = screenCanvas]_vars

\* Escape has been released in the middle of a drag, with Water selected,
\* over a grid on which something had been drawn.
C28_Witness ==
    /\ pc = "handled"
    /\ event.type = "keyup"
    /\ event.keyCode = 27
    /\ isDrawing
    /\ currentTileType = "w"
    /\ \E x \in Columns : \E y \in Rows : tilesBefore[x][y] = "w"
    /\ AllAir(tiles)

=============================================================================
